---- MODULE Spec2Model ----
(***************************************************************************)
(* Model of packages/mcp-provider-dx-core/src/tools/create_custom_fields.ts *)
(* (class CreateCustomFieldsMcpTool).                                      *)
(*                                                                         *)
(* One invocation of exec is a single thread of control that is suspended  *)
(* at every await.  The model has one action per way a pending await can   *)
(* end (the awaited call returns or throws); the action runs the           *)
(* synchronous code up to the next await or up to the return of exec.      *)
(* The org service and the metadata connection are external: what they     *)
(* return or throw is chosen nondeterministically.                         *)
(*                                                                         *)
(* JavaScript values are modelled as follows.                              *)
(*   - an object with optional keys is a function whose DOMAIN is the set  *)
(*     of keys that are present;                                           *)
(*   - a value that may be undefined is Undefined or Val(v);               *)
(*   - a value of type T | T[] is One(x) or Many(seq), and Array.isArray   *)
(*     is IsArray;                                                         *)
(*   - strings are TLA+ strings; the marks U+2713 and U+2717 of the report *)
(*     are written in ASCII (CheckMark, CrossMark).                        *)
(***************************************************************************)
EXTENDS Integers, Sequences, FiniteSets, TLC

(***************************************************************************)
(* Bounds of the model.                                                    *)
(***************************************************************************)
\* largest number of fields and grantees together in the input given to exec
MaxRequest == 3
\* length of the array of outcomes metadata.update returns when it returns an array
MaxUpdateOutcomes == 1
\* length of the errors array of an outcome that reports an array
MaxErrors == 2
\* number of times exec is invoked with the same input (SpecRepeat)
MaxInvocations == 2
\* most options given together in a field definition that does not give them all
\* (SpecBuild)
MaxOptions == 2

(***************************************************************************)
(* State.                                                                  *)
(***************************************************************************)
VARIABLES
    input,          \* the argument of exec
    pc,             \* where the invocation is suspended, or how it ended
    cwd,            \* the working directory of the process
    calls,          \* the calls this invocation made on the org service and the connection
    connectionStatus, \* "none", "resolved" or "threw": how getConnection ended
    thrown,         \* the message of the exception getConnection or create threw, "" if none
    deployResult,   \* what metadata.create returned
    createStatus,   \* "none", "returned" or "threw"
    successFields,
    failedFields,
    i,              \* index in permissions of the grantee being processed
    results,        \* the lines of assignFieldPermissions
    attempts,       \* how the update calls for the grantee last processed ended
    response,       \* the CallToolResult exec returned
    invocation,     \* number of invocations of exec so far
    resolvedTotal,  \* number of invocations whose connection resolved
    createTotal,    \* number of create calls over all invocations
    fieldDefinition, \* the field definition a metadata item is built from
    typeName,       \* the argument of mapFieldType
    mappedType,     \* what mapFieldType returned
    builtMetadata,  \* what buildFieldMetadata returned
    metadataItem,   \* the element of metadataItems built from fieldDefinition
    buildPc         \* how far the building of the item has come

vars ==
    <<input, pc, cwd, calls, connectionStatus, thrown, deployResult, createStatus,
      successFields, failedFields, i, results, attempts, response, invocation,
      resolvedTotal, createTotal, fieldDefinition, typeName, mappedType,
      builtMetadata, metadataItem, buildPc>>

(***************************************************************************)
(* JavaScript helpers.                                                     *)
(***************************************************************************)
Undefined == [def |-> FALSE, v |-> FALSE]
Val(x) == [def |-> TRUE, v |-> x]

\* obj.key, undefined when the key is absent
Get(obj, key) == IF key \in DOMAIN obj THEN Val(obj[key]) ELSE Undefined

\* x ?? d with the given value never used
NullishAlwaysDefault(x, d) == Val(d)

\* x ?? d
Nullish(x, d) == IF x.def THEN x ELSE Val(d)

One(x) == [isArray |-> FALSE, value |-> x]
Many(s) == [isArray |-> TRUE, value |-> s]
IsArray(r) == r.isArray

\* s.endsWith(suffix)
EndsWith(s, suffix) ==
    /\ Len(s) >= Len(suffix)
    /\ SubSeq(s, Len(s) - Len(suffix) + 1, Len(s)) = suffix

\* s.includes(sub)
Includes(s, sub) ==
    \E k \in 1..(Len(s) - Len(sub) + 1) : SubSeq(s, k, k + Len(sub) - 1) = sub

\* array.join(sep)
RECURSIVE Join(_, _)
Join(seq, sep) ==
    IF Len(seq) = 0 THEN ""
    ELSE IF Len(seq) = 1 THEN seq[1]
    ELSE seq[1] \o sep \o Join(Tail(seq), sep)

CheckMark == "[v]"
CrossMark == "[x]"

\* textResponse(text, isError) of shared/utils
textResponse(text, isError) == [text |-> text, isError |-> isError]

(***************************************************************************)
(* mapFieldType and buildFieldMetadata.                                    *)
(***************************************************************************)
fieldTypeEnum ==
    {"Text", "Number", "Checkbox", "Date", "DateTime", "Email", "Phone", "Url",
     "Currency", "Percent", "TextArea", "LongTextArea", "RichTextArea",
     "Picklist", "MultiselectPicklist", "Lookup", "MasterDetail"}

typeMap ==
    [t \in fieldTypeEnum |-> IF t = "RichTextArea" THEN "Html" ELSE t]

\* typeMap is an object literal: besides its own keys it has the properties it
\* inherits from Object.prototype
ObjectPrototypeKeys ==
    {"constructor", "toString", "toLocaleString", "valueOf", "hasOwnProperty",
     "isPrototypeOf", "propertyIsEnumerable", "__proto__"}

\* the value of an inherited property, a function or an object and not a string
Inherited(key) == "Object.prototype." \o key

\* typeMap[type]
typeMapLookup(type) ==
    IF type \in DOMAIN typeMap THEN Val(typeMap[type])
    ELSE IF type \in ObjectPrototypeKeys THEN Val(Inherited(type))
    ELSE Undefined

\* typeMap[type] ?? type
mapFieldType(type) == Nullish(typeMapLookup(type), type).v

\* the object literal of lines 206-214: every key is set, some to undefined
BaseMetadata(field) ==
    [label          |-> Val(field.label),
     type           |-> Val(mapFieldType(field.type)),
     description    |-> Get(field, "description"),
     inlineHelpText |-> Get(field, "helpText"),
     required       |-> Nullish(Get(field, "required"), FALSE),
     unique         |-> Nullish(Get(field, "unique"), FALSE),
     externalId     |-> Nullish(Get(field, "externalId"), FALSE)]

\* the entry of a picklist value with isDefault not looked at
ValueSetEntryNeverDefault(pv) ==
    [fullName |-> pv.value, default |-> FALSE, label |-> pv.value]

\* picklistValues.map(pv => ({fullName, default, label}))
ValueSetEntry(pv) ==
    [fullName |-> pv.value,
     default  |-> Nullish(Get(pv, "isDefault"), FALSE).v,
     label    |-> pv.value]

ValueSet(field) ==
    [restricted |-> TRUE,
     valueSetDefinition |->
        [sorted |-> FALSE,
         value |-> [k \in 1..Len(field.picklistValues) |->
                        ValueSetEntry(field.picklistValues[k])]]]

EmptyObject == [k \in {} |-> Undefined]

\* lines 259-261 without the test of line 259
DeleteConstraintOfAnyRelationship(field) ==
    [deleteConstraint |-> Nullish(Get(field, "deleteConstraint"), "SetNull")]

\* lines 259-261
DeleteConstraint(field) ==
    IF field.type = "Lookup"
        THEN [deleteConstraint |-> Nullish(Get(field, "deleteConstraint"), "SetNull")]
        ELSE EmptyObject

\* the keys assigned by the switch on field.type (lines 217-263)
TypeSpecific(field) ==
    CASE field.type \in {"Text", "TextArea"} ->
            [length |-> Nullish(Get(field, "length"), 255)]
      [] field.type \in {"Number", "Currency", "Percent"} ->
            [precision |-> Nullish(Get(field, "precision"), 18),
             scale     |-> Nullish(Get(field, "scale"), 2)]
      [] field.type \in {"LongTextArea", "RichTextArea"} ->
            [length       |-> Nullish(Get(field, "length"), 32768),
             visibleLines |-> Nullish(Get(field, "visibleLines"), 6)]
      [] field.type \in {"Picklist", "MultiselectPicklist"} ->
            (IF "picklistValues" \in DOMAIN field /\ Len(field.picklistValues) > 0
                THEN [valueSet |-> Val(ValueSet(field))]
                ELSE EmptyObject)
            @@
            (IF field.type = "MultiselectPicklist"
                THEN [visibleLines |-> Nullish(Get(field, "visibleLines"), 4)]
                ELSE EmptyObject)
      [] field.type \in {"Lookup", "MasterDetail"} ->
            [referenceTo       |-> Get(field, "referenceTo"),
             relationshipName  |->
                Nullish(Get(field, "relationshipName"), field.fieldApiName \o "s"),
             relationshipLabel |->
                Nullish(Get(field, "relationshipLabel"), field.label \o "s")]
            @@ DeleteConstraint(field)
      [] OTHER -> EmptyObject

\* Object.fromEntries(Object.entries(metadata)) with nothing filtered out
KeepUndefined(metadata) == [k \in DOMAIN metadata |-> metadata[k].v]

\* Object.fromEntries(Object.entries(metadata).filter(([_, v]) => v !== undefined))
RemoveUndefined(metadata) ==
    [k \in {key \in DOMAIN metadata : metadata[key].def} |-> metadata[k].v]

buildFieldMetadata(field) ==
    RemoveUndefined(TypeSpecific(field) @@ BaseMetadata(field))

\* the suffix rule appending "__c" whatever the name ends with
fullFieldNameAlwaysSuffixed(field) == field.fieldApiName \o "__c"

\* the suffix rule of lines 167-169
fullFieldName(field) ==
    IF EndsWith(field.fieldApiName, "__c")
        THEN field.fieldApiName
        ELSE field.fieldApiName \o "__c"

\* one element of metadataItems (lines 170-174); the spread comes last, so its
\* keys win over the literal's
MetadataItem(field) ==
    buildFieldMetadata(field)
    @@ [type |-> "CustomField",
        fullName |-> field.objectApiName \o "." \o fullFieldName(field)]

\* metadataItems with the last field left out
metadataItemsButLast(fields) == [k \in 1..(Len(fields) - 1) |-> MetadataItem(fields[k])]

metadataItems(fields) == [k \in 1..Len(fields) |-> MetadataItem(fields[k])]

(***************************************************************************)
(* Inputs of exec.                                                         *)
(***************************************************************************)
FieldFoo ==
    [objectApiName |-> "Account", fieldApiName |-> "Foo", label |-> "Foo",
     type |-> "Text"]

FieldBar ==
    [objectApiName |-> "Account", fieldApiName |-> "Bar__c", label |-> "Bar",
     type |-> "Picklist",
     picklistValues |-> <<[value |-> "A", isDefault |-> TRUE], [value |-> "B"]>>]

\* the k-th field of the request
Field(k) == IF k % 2 = 1 THEN FieldFoo ELSE FieldBar

\* the k-th permission assignment of the request
Grantee(k) ==
    [permissionSetOrProfile |-> "Grantee" \o ToString(k),
     readable |-> TRUE,
     editable |-> (k % 2 = 0)]

\* fields: z.array(fieldDefinitionSchema).min(1)
FieldLists == {[k \in 1..n |-> Field(k)] : n \in 1..MaxRequest}

\* permissions: z.array(permissionAssignmentSchema).optional()
PermLists == {[k \in 1..n |-> Grantee(k)] : n \in 0..(MaxRequest - 1)}

\* the optional keys of fieldDefinitionSchema (lines 57-71), each with a value
Options ==
    {[length |-> n] : n \in {0, 10}}
    \cup {[precision |-> n] : n \in {0, 5}}
    \cup {[scale |-> n] : n \in {0, 3}}
    \cup {[visibleLines |-> n] : n \in {0, 3}}
    \cup {[description |-> "A description"], [helpText |-> "Some help"]}
    \cup {[required |-> b] : b \in BOOLEAN}
    \cup {[unique |-> b] : b \in BOOLEAN}
    \cup {[externalId |-> b] : b \in BOOLEAN}
    \cup {[picklistValues |-> l] :
            l \in {<<>>,
                   <<[value |-> "A", isDefault |-> TRUE], [value |-> "B"]>>,
                   <<[value |-> "B", isDefault |-> FALSE], [value |-> "A"],
                     [value |-> "C", isDefault |-> TRUE]>>}}
    \cup {[referenceTo |-> "Contact"], [relationshipName |-> "Owners"],
          [relationshipLabel |-> "Owner records"]}
    \cup {[deleteConstraint |-> c] : c \in {"SetNull", "Restrict", "Cascade"}}

\* every optional key given
AllOptions ==
    [length |-> 10, precision |-> 5, scale |-> 3, visibleLines |-> 3,
     description |-> "A description", helpText |-> "Some help",
     required |-> TRUE, unique |-> TRUE, externalId |-> TRUE,
     picklistValues |-> <<[value |-> "A", isDefault |-> TRUE], [value |-> "B"]>>,
     referenceTo |-> "Contact", relationshipName |-> "Owners",
     relationshipLabel |-> "Owner records", deleteConstraint |-> "Restrict"]

\* the objects that give at most n options
RECURSIVE OptionsUpTo(_)
OptionsUpTo(n) ==
    IF n = 0 THEN {EmptyObject}
    ELSE LET fewer == OptionsUpTo(n - 1) IN
         fewer \cup UNION {{b @@ o : o \in {x \in Options : DOMAIN x \cap DOMAIN b = {}}} :
                            b \in fewer}

\* fieldApiName with and without the suffix, and with a near miss of it
ApiNames == {"Foo", "Foo__c", "Rate_c"}

\* the field definitions fieldDefinitionSchema accepts (lines 52-72)
FieldDefinitions ==
    {[objectApiName |-> "Account", fieldApiName |-> n, label |-> "Foo", type |-> t] @@ b :
        t \in fieldTypeEnum, n \in ApiNames, b \in OptionsUpTo(MaxOptions) \cup {AllOptions}}

\* names mapFieldType(type: string) may be given that are not in fieldTypeEnum
UnknownTypeNames == {"Html", "Geolocation", "constructor"}

Directories == {"/project", "/missing"}
UsableDirectories == {"/project"}

\* the input objects: usernameOrAlias and permissions may be absent
Inputs ==
    UNION {{[fields |-> f, directory |-> d] @@ u @@ p :
                d \in Directories,
                u \in {EmptyObject, [usernameOrAlias |-> ""], [usernameOrAlias |-> "myorg"]},
                p \in {EmptyObject} \cup
                      {[permissions |-> l] :
                          l \in {q \in PermLists : Len(f) + Len(q) <= MaxRequest}}} :
           f \in FieldLists}

(***************************************************************************)
(* What the remote may answer.                                             *)
(***************************************************************************)
\* messages of the exceptions thrown by getConnection, create and update
ThrownMessages == {"ECONNRESET", "INVALID_SESSION_ID"}

Error(n) == [message |-> "error " \o ToString(n)]

\* errors of a failed outcome: a single error, or an array of MaxErrors errors
ErrorValues == {One(Error(1)), Many([k \in 1..MaxErrors |-> Error(k)])}

\* the outcomes (SaveResult) the remote may report for an item
Outcomes(name) ==
    {[fullName |-> name, success |-> TRUE, errors |-> Many(<<>>)]}
    \cup {[fullName |-> name, success |-> FALSE, errors |-> e] : e \in ErrorValues}

\* the sequences without repetition of positions of the submitted items
Selections(n) ==
    UNION {{s \in [1..m -> 1..n] : \A j, k \in 1..m : j # k => s[j] # s[k]} : m \in 0..n}

\* the sequences of outcomes that report on the items at the positions of sel
OutcomesFor(items, sel) ==
    {s \in [1..Len(sel) -> UNION {Outcomes(items[k].fullName) : k \in 1..Len(items)}] :
        \A k \in 1..Len(sel) : s[k].fullName = items[sel[k]].fullName}

\* metadata.create returns a single outcome or an array of outcomes: the remote
\* reports on submitted items only and on each at most once, in any order
CreateResults(items) ==
    {One(o) : o \in UNION {Outcomes(items[k].fullName) : k \in 1..Len(items)}}
    \cup {Many(s) : s \in UNION {OutcomesFor(items, sel) : sel \in Selections(Len(items))}}

\* an outcome that is not the one of the item updated
Other(o) == [o EXCEPT !.fullName = "", !.success = ~o.success, !.errors = Many(<<>>)]

\* metadata.update of one item returns its outcome, alone or first in an array
UpdateResults(name) ==
    {One(o) : o \in Outcomes(name)}
    \cup {Many([k \in 1..MaxUpdateOutcomes |-> IF k = 1 THEN o ELSE Other(o)]) :
            o \in Outcomes(name)}

(***************************************************************************)
(* deployFieldsAndPermissions, assignFieldPermissions, buildResultSummary: *)
(* the pure parts.                                                         *)
(***************************************************************************)
\* AsArray that leaves out a value that is not an array
AsArrayOfArraysOnly(r) == IF IsArray(r) THEN r.value ELSE <<>>

\* Array.isArray(x) ? x : [x]
AsArray(r) == IF IsArray(r) THEN r.value ELSE <<r.value>>

\* Array.isArray(x) ? x[0] : x
FirstOrSelf(r) == IF IsArray(r) THEN r.value[1] ELSE r.value

ErrorMessage(e) == e.message

\* errors.map(e => e.message).join(', '), errors made an array first
ErrorText(errors) ==
    LET es == AsArray(errors) IN
    Join([k \in 1..Len(es) |-> ErrorMessage(es[k])], ", ")

\* e?.message: the errors of an outcome are objects, of which this is e.message
OptionalErrorMessage(e) == e.message

\* errors.map(e => e?.message).join(', '), errors made an array first
UpdateErrorText(errors) ==
    LET es == AsArray(errors) IN
    Join([k \in 1..Len(es) |-> OptionalErrorMessage(es[k])], ", ")

\* line 188-189: `${result.fullName}: ${errors.map(e => e.message).join(', ')}`
FailedFieldEntry(result) == result.fullName \o ": " \o ErrorText(result.errors)

\* PartitionResults naming each outcome after the field submitted at its position
RECURSIVE PartitionResultsByPosition(_, _, _)
PartitionResultsByPosition(outcomes, succ, failed) ==
    LET position == Len(succ) + Len(failed) + 1
        items == metadataItems(input.fields)
        named == IF position <= Len(items)
                    THEN [Head(outcomes) EXCEPT !.fullName = items[position].fullName]
                    ELSE Head(outcomes)
    IN  IF Len(outcomes) = 0
            THEN [successFields |-> succ, failedFields |-> failed]
            ELSE IF named.success
                THEN PartitionResultsByPosition(Tail(outcomes),
                                                Append(succ, named.fullName), failed)
                ELSE PartitionResultsByPosition(Tail(outcomes), succ,
                                                Append(failed, FailedFieldEntry(named)))

\* the loop of lines 184-191 over the outcomes not yet visited
RECURSIVE PartitionResults(_, _, _)
PartitionResults(outcomes, succ, failed) ==
    IF Len(outcomes) = 0
        THEN [successFields |-> succ, failedFields |-> failed]
        ELSE IF Head(outcomes).success
            THEN PartitionResults(Tail(outcomes),
                                  Append(succ, Head(outcomes).fullName), failed)
            ELSE PartitionResults(Tail(outcomes), succ,
                                  Append(failed, FailedFieldEntry(Head(outcomes))))

\* ShouldAssignPermissions without the test of successFields
ShouldAssignPermissionsAnyFields(in, succ) ==
    IF "permissions" \in DOMAIN in THEN Len(in.permissions) > 0 ELSE FALSE

\* line 195
ShouldAssignPermissions(in, succ) ==
    IF "permissions" \in DOMAIN in
        THEN Len(in.permissions) > 0 /\ Len(succ) > 0
        ELSE FALSE

\* lines 302-306
\* the grant-list with editable taken from readable
fieldPermissionsAsReadable(fieldNames, perm) ==
    [k \in 1..Len(fieldNames) |->
        [field |-> fieldNames[k], readable |-> perm.readable, editable |-> perm.readable]]

fieldPermissions(fieldNames, perm) ==
    [k \in 1..Len(fieldNames) |->
        [field |-> fieldNames[k], readable |-> perm.readable, editable |-> perm.editable]]

\* the argument of metadata.update (lines 310-313, 320-323, 335-338)
UpdateCall(kind, fieldNames, perm) ==
    [op |-> "update", kind |-> kind,
     arg |-> [fullName |-> perm.permissionSetOrProfile,
              fieldPermissions |-> fieldPermissions(fieldNames, perm)]]

CreateCall(fields) ==
    [op |-> "create", kind |-> "CustomField", arg |-> metadataItems(fields)]

GetConnectionCall(in) ==
    [op |-> "getConnection", kind |-> "", arg |-> in.usernameOrAlias]

PermissionSetAssigned(perm) ==
    CheckMark \o " Permission Set \"" \o perm.permissionSetOrProfile \o "\": assigned"

ProfileAssigned(perm) ==
    CheckMark \o " Profile \"" \o perm.permissionSetOrProfile \o "\": assigned"

FailureLine(perm, text) ==
    CrossMark \o " \"" \o perm.permissionSetOrProfile \o "\": " \o text

\* lines 326-331: the line for the Profile result inside the try block
ProfileLineInTry(perm, pResult) ==
    IF pResult.success
        THEN ProfileAssigned(perm)
        ELSE FailureLine(perm, UpdateErrorText(pResult.errors))

\* ProfileLineInCatch reporting the first error only
ProfileLineInCatchFirstError(perm, pResult) ==
    IF pResult.success
        THEN ProfileAssigned(perm)
        ELSE FailureLine(perm, OptionalErrorMessage(AsArray(pResult.errors)[1]))

\* lines 341-346: the line for the Profile result inside the catch block
ProfileLineInCatch(perm, pResult) ==
    IF pResult.success
        THEN ProfileAssigned(perm)
        ELSE FailureLine(perm, UpdateErrorText(pResult.errors))

SuccessLine(f) == "  " \o CheckMark \o " " \o f
FailedLine(f) == "  " \o CrossMark \o " " \o f

buildResultSummary(succ, failed, permissionResults) ==
    Join(
        (IF Len(succ) > 0
            THEN <<"Successfully created " \o ToString(Len(succ)) \o " field(s):",
                   Join([k \in 1..Len(succ) |-> SuccessLine(succ[k])], "\n")>>
            ELSE <<>>)
        \o
        (IF Len(failed) > 0
            THEN <<"\nFailed to create " \o ToString(Len(failed)) \o " field(s):",
                   Join([k \in 1..Len(failed) |-> FailedLine(failed[k])], "\n")>>
            ELSE <<>>)
        \o
        (IF permissionResults # ""
            THEN <<"\nPermission assignments:", permissionResults>>
            ELSE <<>>),
        "\n")

MissingUsernameMessage ==
    "The usernameOrAlias parameter is required. Use the #get_username tool if not specified."

FailedMessage(message) == "Failed to create custom fields: " \o message

\* UsernameMissing testing for undefined only
UsernameUndefined(in) == "usernameOrAlias" \notin DOMAIN in

\* !input.usernameOrAlias
UsernameMissing(in) ==
    IF "usernameOrAlias" \in DOMAIN in THEN in.usernameOrAlias = "" ELSE TRUE

(***************************************************************************)
(* Initial state.                                                          *)
(***************************************************************************)
NoResponse == textResponse("", FALSE)

execVars == <<connectionStatus, thrown>>
deployVars == <<deployResult, createStatus, successFields, failedFields>>
permVars == <<i, results, attempts>>
totals == <<invocation, resolvedTotal, createTotal>>
buildVars ==
    <<fieldDefinition, typeName, mappedType, builtMetadata, metadataItem, buildPc>>
invocationVars ==
    <<input, pc, cwd, calls, execVars, deployVars, permVars, response, totals>>

\* the state of an invocation that has not run yet
Fresh ==
    /\ pc = "start"
    /\ calls = <<>>
    /\ connectionStatus = "none"
    /\ thrown = ""
    /\ deployResult = Many(<<>>)
    /\ createStatus = "none"
    /\ successFields = <<>>
    /\ failedFields = <<>>
    /\ i = 0
    /\ results = <<>>
    /\ attempts = <<>>
    /\ response = NoResponse

\* no item is being built
NothingBuilt ==
    /\ mappedType = ""
    /\ builtMetadata = EmptyObject
    /\ metadataItem = EmptyObject

Init ==
    /\ input \in Inputs
    /\ cwd = "/"
    /\ invocation = 1
    /\ resolvedTotal = 0
    /\ createTotal = 0
    /\ Fresh
    /\ fieldDefinition = input.fields[1]
    /\ typeName = input.fields[1].type
    /\ buildPc = "idle"
    /\ NothingBuilt

(***************************************************************************)
(* exec (lines 140-158).                                                   *)
(***************************************************************************)
\* lines 141-146
ExecMissingUsername ==
    /\ pc = "start"
    /\ UsernameMissing(input)
    /\ response' = textResponse(MissingUsernameMessage, TRUE)
    /\ pc' = "returned"
    /\ UNCHANGED <<buildVars, input, cwd, calls, execVars, deployVars, permVars, totals>>

\* line 148 and the call of line 151
ExecChdir ==
    /\ pc = "start"
    /\ ~UsernameMissing(input)
    /\ input.directory \in UsableDirectories
    /\ cwd' = input.directory
    /\ calls' = Append(calls, GetConnectionCall(input))
    /\ pc' = "getConnection"
    /\ UNCHANGED <<buildVars, input, execVars, deployVars, permVars, response, totals>>

\* line 148: process.chdir throws outside the try block, exec rejects
ExecChdirThrows ==
    /\ pc = "start"
    /\ ~UsernameMissing(input)
    /\ input.directory \notin UsableDirectories
    /\ pc' = "rejected"
    /\ UNCHANGED <<buildVars, input, cwd, calls, execVars, deployVars, permVars, response, totals>>

\* exec without the catch of lines 154-157: the exception leaves exec
RethrowInExec(message) ==
    /\ pc' = "rejected"
    /\ UNCHANGED response

\* lines 154-157
CatchInExec(message) ==
    /\ response' = textResponse(FailedMessage(message), TRUE)
    /\ pc' = "returned"

\* line 151 throws
GetConnectionThrows ==
    /\ pc = "getConnection"
    /\ connectionStatus' = "threw"
    /\ \E m \in ThrownMessages : thrown' = m /\ CatchInExec(m)
    /\ UNCHANGED <<buildVars, input, cwd, calls, deployVars, permVars, totals>>

\* line 151 returns; lines 152, 166-178 up to the await of create
GetConnectionResolves ==
    /\ pc = "getConnection"
    /\ connectionStatus' = "resolved"
    /\ calls' = Append(calls, CreateCall(input.fields))
    /\ resolvedTotal' = resolvedTotal + 1
    /\ createTotal' = createTotal + 1
    /\ pc' = "create"
    /\ UNCHANGED <<buildVars, input, cwd, thrown, deployVars, permVars, response, invocation>>

(***************************************************************************)
(* deployFieldsAndPermissions (lines 160-201).                             *)
(***************************************************************************)
\* line 178 throws: the exception leaves deployFieldsAndPermissions
CreateThrows ==
    /\ pc = "create"
    /\ createStatus' = "threw"
    /\ \E m \in ThrownMessages : thrown' = m /\ CatchInExec(m)
    /\ UNCHANGED <<buildVars, input, cwd, calls, connectionStatus, deployResult, successFields,
                   failedFields, permVars, totals>>

\* Summarize with the flag also raised by a failed permission assignment
SummarizeFlaggingPermissions(succ, failed, permissionResults) ==
    /\ response' = textResponse(buildResultSummary(succ, failed, permissionResults),
                                Len(failed) > 0 \/ Includes(permissionResults, CrossMark))
    /\ pc' = "returned"

\* lines 199-200
Summarize(succ, failed, permissionResults) ==
    /\ response' = textResponse(buildResultSummary(succ, failed, permissionResults),
                                Len(failed) > 0)
    /\ pc' = "returned"

\* line 178 returns; lines 179-200, up to the first await of assignFieldPermissions
CreateReturnsWith(r) ==
    LET part == PartitionResults(AsArray(r), <<>>, <<>>) IN
    /\ deployResult' = r
    /\ createStatus' = "returned"
    /\ successFields' = part.successFields
    /\ failedFields' = part.failedFields
    /\ IF ShouldAssignPermissions(input, part.successFields)
          THEN /\ i' = 1
               /\ calls' = Append(calls, UpdateCall("PermissionSet", part.successFields,
                                                    input.permissions[1]))
               /\ pc' = "updatePermissionSet"
               /\ UNCHANGED response
          ELSE /\ Summarize(part.successFields, part.failedFields, "")
               /\ UNCHANGED <<i, calls>>

CreateReturns ==
    /\ pc = "create"
    /\ \E r \in CreateResults(metadataItems(input.fields)) : CreateReturnsWith(r)
    /\ UNCHANGED <<buildVars, input, cwd, execVars, results, attempts, totals>>

(***************************************************************************)
(* assignFieldPermissions (lines 292-354).                                 *)
(***************************************************************************)
\* the first grantee of the request, whichever is being processed
permOfFirstGrantee == input.permissions[1]

\* the grantee being processed (line 299)
perm == input.permissions[i]

\* the call being awaited: the last one made
awaited == calls[Len(calls)]

\* how an awaited update call ended
ReturnedAttempt(r) ==
    [grantee |-> i, call |-> awaited, threw |-> FALSE, message |-> "", result |-> r]
ThrewAttempt(m) ==
    [grantee |-> i, call |-> awaited, threw |-> TRUE, message |-> m,
     result |-> Many(<<>>)]

\* results.push(line), then the next turn of the loop of line 299 up to its
\* first await, or lines 353 and 199-200 when the loop is over
PushLine(line) ==
    /\ results' = Append(results, line)
    /\ IF i < Len(input.permissions)
          THEN /\ i' = i + 1
               /\ calls' = Append(calls, UpdateCall("PermissionSet", successFields,
                                                    input.permissions[i + 1]))
               /\ pc' = "updatePermissionSet"
               /\ UNCHANGED response
          ELSE /\ Summarize(successFields, failedFields,
                            Join(Append(results, line), "\n"))
               /\ UNCHANGED <<i, calls>>

\* the Profile update of lines 320-323 or 335-338 is called
CallProfile(at) ==
    /\ calls' = Append(calls, UpdateCall("Profile", successFields, perm))
    /\ pc' = at
    /\ UNCHANGED <<i, results, response>>

\* line 310 returns; lines 315-323
PermissionSetReturnsWith(r) ==
    /\ attempts' = <<ReturnedAttempt(r)>>
    /\ IF FirstOrSelf(r).success
          THEN PushLine(PermissionSetAssigned(perm))
          ELSE CallProfile("updateProfileInTry")

PermissionSetReturns ==
    /\ pc = "updatePermissionSet"
    /\ \E r \in UpdateResults(perm.permissionSetOrProfile) : PermissionSetReturnsWith(r)
    /\ UNCHANGED <<buildVars, input, cwd, execVars, deployVars, totals>>

\* line 310 throws; lines 333-338
PermissionSetThrows ==
    /\ pc = "updatePermissionSet"
    /\ \E m \in ThrownMessages : attempts' = <<ThrewAttempt(m)>>
    /\ CallProfile("updateProfileInCatch")
    /\ UNCHANGED <<buildVars, input, cwd, execVars, deployVars, totals>>

\* line 320 returns; lines 325-331
ProfileInTryReturns ==
    /\ pc = "updateProfileInTry"
    /\ \E r \in UpdateResults(perm.permissionSetOrProfile) :
          /\ attempts' = Append(attempts, ReturnedAttempt(r))
          /\ PushLine(ProfileLineInTry(perm, FirstOrSelf(r)))
    /\ UNCHANGED <<buildVars, input, cwd, execVars, deployVars, totals>>

\* line 320 throws inside the try block of line 309: the catch of line 333 runs
ProfileInTryThrows ==
    /\ pc = "updateProfileInTry"
    /\ \E m \in ThrownMessages : attempts' = Append(attempts, ThrewAttempt(m))
    /\ CallProfile("updateProfileInCatch")
    /\ UNCHANGED <<buildVars, input, cwd, execVars, deployVars, totals>>

\* line 335 returns; lines 340-346
ProfileInCatchReturns ==
    /\ pc = "updateProfileInCatch"
    /\ \E r \in UpdateResults(perm.permissionSetOrProfile) :
          /\ attempts' = Append(attempts, ReturnedAttempt(r))
          /\ PushLine(ProfileLineInCatch(perm, FirstOrSelf(r)))
    /\ UNCHANGED <<buildVars, input, cwd, execVars, deployVars, totals>>

\* ProfileInCatchThrows without the catch of lines 348-350: the exception
\* leaves assignFieldPermissions and is caught by exec
ProfileInCatchThrowsUncaught ==
    /\ pc = "updateProfileInCatch"
    /\ \E m \in ThrownMessages :
          /\ attempts' = Append(attempts, ThrewAttempt(m))
          /\ CatchInExec(m)
    /\ UNCHANGED <<buildVars, input, cwd, calls, execVars, deployVars, i, results, totals>>

\* line 335 throws: the catch of lines 348-350 runs
ProfileInCatchThrows ==
    /\ pc = "updateProfileInCatch"
    /\ \E m \in ThrownMessages :
          /\ attempts' = Append(attempts, ThrewAttempt(m))
          /\ PushLine(FailureLine(perm, m))
    /\ UNCHANGED <<buildVars, input, cwd, execVars, deployVars, totals>>

(***************************************************************************)
(* exec is invoked again with the same input.  The invocation starts from   *)
(* nothing but its argument: only the working directory of the process     *)
(* outlives the previous one.                                              *)
(***************************************************************************)
ExecAgain ==
    /\ pc \in {"returned", "rejected"}
    /\ invocation < MaxInvocations
    /\ invocation' = invocation + 1
    /\ pc' = "start"
    /\ calls' = <<>>
    /\ connectionStatus' = "none"
    /\ thrown' = ""
    /\ deployResult' = Many(<<>>)
    /\ createStatus' = "none"
    /\ successFields' = <<>>
    /\ failedFields' = <<>>
    /\ i' = 0
    /\ results' = <<>>
    /\ attempts' = <<>>
    /\ response' = NoResponse
    /\ UNCHANGED <<buildVars, input, cwd, resolvedTotal, createTotal>>

Next ==
    \/ ExecMissingUsername
    \/ ExecChdir
    \/ ExecChdirThrows
    \/ GetConnectionThrows
    \/ GetConnectionResolves
    \/ CreateThrows
    \/ CreateReturns
    \/ PermissionSetReturns
    \/ PermissionSetThrows
    \/ ProfileInTryReturns
    \/ ProfileInTryThrows
    \/ ProfileInCatchReturns
    \/ ProfileInCatchThrows

\* one invocation of exec
Spec == Init /\ [][Next]_vars

NextRepeat ==
    \/ Next
    \/ ExecAgain

\* at most one grantee is requested
InitRepeat ==
    /\ Init
    /\ "permissions" \in DOMAIN input => Len(input.permissions) <= 1

\* exec invoked up to MaxInvocations times with the same input
SpecRepeat == InitRepeat /\ [][NextRepeat]_vars

(***************************************************************************)
(* The building of one metadata item: mapFieldType, buildFieldMetadata and *)
(* the callback of fields.map, each applied to its argument.               *)
(***************************************************************************)
\* a definition that gives no option
Plain(field) == DOMAIN field = {"objectApiName", "fieldApiName", "label", "type"}

InitBuild ==
    /\ cwd = "/"
    /\ invocation = 1
    /\ resolvedTotal = 0
    /\ createTotal = 0
    /\ Fresh
    /\ fieldDefinition \in FieldDefinitions
    /\ input = [fields |-> <<fieldDefinition>>, directory |-> "/project",
                usernameOrAlias |-> "myorg"]
    /\ typeName \in {fieldDefinition.type} \cup
                     (IF Plain(fieldDefinition) THEN UnknownTypeNames ELSE {})
    /\ buildPc = "given"
    /\ NothingBuilt

\* lines 269-290
MapFieldType ==
    /\ buildPc = "given"
    /\ mappedType' = mapFieldType(typeName)
    /\ buildPc' = "mapped"
    /\ UNCHANGED <<invocationVars, fieldDefinition, typeName, builtMetadata, metadataItem>>

\* lines 205-267
BuildFieldMetadata ==
    /\ buildPc = "mapped"
    /\ builtMetadata' = buildFieldMetadata(fieldDefinition)
    /\ buildPc' = "built"
    /\ UNCHANGED <<invocationVars, fieldDefinition, typeName, mappedType, metadataItem>>

\* lines 166-175, for one field
BuildMetadataItem ==
    /\ buildPc = "built"
    /\ metadataItem' = MetadataItem(fieldDefinition)
    /\ buildPc' = "item"
    /\ UNCHANGED <<invocationVars, fieldDefinition, typeName, mappedType, builtMetadata>>

NextBuild ==
    \/ MapFieldType
    \/ BuildFieldMetadata
    \/ BuildMetadataItem

\* one field definition made into a metadata item
SpecBuild == InitBuild /\ [][NextBuild]_vars

(***************************************************************************)
(* Properties.                                                             *)
(***************************************************************************)
StartsWith(s, prefix) ==
    Len(s) >= Len(prefix) /\ SubSeq(s, 1, Len(prefix)) = prefix

\* the outcomes metadata.create returned, as a sequence
ReturnedOutcomes ==
    IF deployResult.isArray THEN deployResult.value ELSE <<deployResult.value>>

UpdateCalls == {k \in 1..Len(calls) : calls[k].op = "update"}

\* the outcome of an update result the tool looks at
UsedOutcome(r) == IF r.isArray THEN r.value[1] ELSE r.value

\* the messages of an outcome's errors, joined
JoinedErrors(outcome) ==
    LET es == IF outcome.errors.isArray THEN outcome.errors.value
              ELSE <<outcome.errors.value>>
    IN Join([k \in 1..Len(es) |-> es[k].message], ", ")

GranteeName(g) == input.permissions[g].permissionSetOrProfile

IsFailureLine(line, g) == StartsWith(line, "[x] \"" \o GranteeName(g) \o "\": ")

\* the line of the grantee whose update calls `attempts` holds has been recorded
LineRecorded == attempts # <<>> /\ Len(results) >= attempts[1].grantee

\* C1: when the connection resolved and create returned normally, the error flag
\* exec returns is true exactly when some returned outcome has success = false,
\* whatever the permission phase recorded.
C1_ErrorFlagIffFieldFailed ==
    (pc = "returned" /\ createStatus = "returned") =>
        (response.isError <=>
            \E k \in 1..Len(ReturnedOutcomes) : ~ReturnedOutcomes[k].success)

\* C1 witness: every field succeeded, a permission assignment failed, and the
\* flag is false.
C1_Witness ==
    /\ pc = "returned"
    /\ createStatus = "returned"
    /\ ~response.isError
    /\ \E g \in 1..Len(results) : IsFailureLine(results[g], g)

\* C2: when the PermissionSet update of a grantee throws, a Profile update with
\* the same name and grant-list is the next call, and the grantee's line is
\* that call's: Profile assigned if it returned success, a failure line with its
\* error messages joined if it returned a failure, a failure line with the
\* exception's message if it threw.
C2_ThrowFallbackDecides ==
    (LineRecorded /\ attempts[1].threw) =>
        LET g == attempts[1].grantee
            a == attempts[1]
            b == attempts[2]
        IN  /\ Len(attempts) = 2
            /\ a.call.op = "update" /\ a.call.kind = "PermissionSet"
            /\ b.call.op = "update" /\ b.call.kind = "Profile"
            /\ b.call.arg = a.call.arg
            /\ b.call.arg.fullName = GranteeName(g)
            /\ results[g] =
                IF b.threw
                    THEN "[x] \"" \o GranteeName(g) \o "\": " \o b.message
                ELSE IF UsedOutcome(b.result).success
                    THEN "[v] Profile \"" \o GranteeName(g) \o "\": assigned"
                ELSE "[x] \"" \o GranteeName(g) \o "\": "
                        \o JoinedErrors(UsedOutcome(b.result))

\* C2 witness: PermissionSet threw, Profile returned a failure with several
\* errors, and the line is recorded.
C2_Witness ==
    /\ LineRecorded
    /\ attempts[1].threw
    /\ Len(attempts) = 2
    /\ ~attempts[2].threw
    /\ ~UsedOutcome(attempts[2].result).success
    /\ UsedOutcome(attempts[2].result).errors.isArray
    /\ Len(UsedOutcome(attempts[2].result).errors.value) > 1

\* C3: when the PermissionSet update of a grantee returns success = false, a
\* Profile update with the same name and grant-list is the next call, and the
\* grantee's line is that call's: Profile assigned if it returned success,
\* otherwise a failure line (with its error messages joined when it returned
\* them).
C3_DeclaredFailureFallbackDecides ==
    (LineRecorded /\ ~attempts[1].threw /\ ~UsedOutcome(attempts[1].result).success) =>
        LET g == attempts[1].grantee
            a == attempts[1]
            b == attempts[2]
        IN  /\ Len(attempts) >= 2
            /\ a.call.op = "update" /\ a.call.kind = "PermissionSet"
            /\ b.call.op = "update" /\ b.call.kind = "Profile"
            /\ b.call.arg = a.call.arg
            /\ b.call.arg.fullName = GranteeName(g)
            /\ IF b.threw
                    THEN IsFailureLine(results[g], g)
               ELSE IF UsedOutcome(b.result).success
                    THEN results[g] = "[v] Profile \"" \o GranteeName(g) \o "\": assigned"
               ELSE results[g] = "[x] \"" \o GranteeName(g) \o "\": "
                                    \o JoinedErrors(UsedOutcome(b.result))

PermissionPhase ==
    pc \in {"updatePermissionSet", "updateProfileInTry", "updateProfileInCatch"}

\* a line of the permissions block that belongs to grantee g
IsLineOf(line, g) ==
    \/ line = "[v] Permission Set \"" \o GranteeName(g) \o "\": assigned"
    \/ line = "[v] Profile \"" \o GranteeName(g) \o "\": assigned"
    \/ IsFailureLine(line, g)

PermissionSetCalls ==
    {k \in UpdateCalls : calls[k].kind = "PermissionSet"}

\* C4: once the permission phase runs, no exception leaves it (exec neither
\* rejects nor reports a caught exception), every grantee before the current
\* one has exactly one line, line k belongs to grantee k, every grantee gets
\* its PermissionSet call, and at the return there is one line per requested
\* grantee, the permissions block of the report being these lines in order.
C4_OneLinePerGrantee ==
    (i >= 1) =>
        /\ pc \in {"updatePermissionSet", "updateProfileInTry", "updateProfileInCatch",
                   "returned"}
        /\ thrown = ""
        /\ PermissionPhase => Len(results) = i - 1
        /\ \A k \in 1..Len(results) : IsLineOf(results[k], k)
        /\ Cardinality(PermissionSetCalls) = IF PermissionPhase THEN i ELSE Len(results)
        /\ pc = "returned" =>
            /\ Len(results) = Len(input.permissions)
            /\ EndsWith(response.text,
                        "\nPermission assignments:\n" \o Join(results, "\n"))

\* C4 witness: both update calls of the first of two grantees threw, its line
\* carries the exception's message, and the second grantee was assigned.
C4_Witness ==
    /\ pc = "returned"
    /\ Len(results) = 2
    /\ results[1] \in {"[x] \"Grantee1\": " \o m : m \in ThrownMessages}
    /\ results[2] = "[v] Permission Set \"Grantee2\": assigned"

\* C5: after create returned normally, update calls are made exactly when
\* permissions is present and non-empty and some outcome succeeded; otherwise
\* the report has no permissions block.
C5_PermissionPhaseCondition ==
    (createStatus = "returned") =>
        LET requested ==
                IF "permissions" \in DOMAIN input
                    THEN Len(input.permissions) > 0 ELSE FALSE
            someSucceeded ==
                \E k \in 1..Len(ReturnedOutcomes) : ReturnedOutcomes[k].success
        IN  /\ (UpdateCalls # {}) <=> (requested /\ someSucceeded)
            /\ (pc = "returned" /\ ~(requested /\ someSucceeded)) =>
                    ~Includes(response.text, "Permission assignments:")
            /\ (pc = "returned" /\ requested /\ someSucceeded) =>
                    Includes(response.text, "Permission assignments:")

\* C5 witness: one field failed, another succeeded, and the permission phase
\* ran for the one that succeeded.
C5_Witness ==
    /\ createStatus = "returned"
    /\ Len(failedFields) > 0
    /\ Len(successFields) > 0
    /\ UpdateCalls # {}
    /\ pc = "returned"

\* C6: when usernameOrAlias is missing or empty, exec does nothing but return
\* the fixed message with the error flag set: no getConnection, create or
\* update call is made and the working directory is left alone.
C6_MissingUsernameRejected ==
    (IF "usernameOrAlias" \in DOMAIN input THEN input.usernameOrAlias = "" ELSE TRUE) =>
        /\ pc \in {"start", "returned"}
        /\ calls = <<>>
        /\ connectionStatus = "none"
        /\ createStatus = "none"
        /\ cwd = "/"
        /\ pc = "returned" =>
            response =
                [text |-> "The usernameOrAlias parameter is required. "
                          \o "Use the #get_username tool if not specified.",
                 isError |-> TRUE]

\* C6 witness: exec returned for an empty usernameOrAlias.
C6_Witness ==
    /\ pc = "returned"
    /\ "usernameOrAlias" \in DOMAIN input
    /\ input.usernameOrAlias = ""
    /\ response.isError

\* C7: when getConnection or create throws, exec returns (it does not reject)
\* the message "Failed to create custom fields: " followed by the exception's
\* message, with the error flag set; the report has no success, failure or
\* permissions block and no update call was made.
C7_ThrowReportedOnce ==
    (connectionStatus = "threw" \/ createStatus = "threw") =>
        /\ pc = "returned"
        /\ thrown \in ThrownMessages
        /\ response = [text |-> "Failed to create custom fields: " \o thrown,
                       isError |-> TRUE]
        /\ ~Includes(response.text, "Successfully created")
        /\ ~Includes(response.text, "field(s):")
        /\ ~Includes(response.text, "Permission assignments:")
        /\ UpdateCalls = {}
        /\ successFields = <<>> /\ failedFields = <<>> /\ results = <<>>

\* C7 witness: create threw after the connection resolved, with permissions
\* requested.
C7_Witness ==
    /\ createStatus = "threw"
    /\ connectionStatus = "resolved"
    /\ pc = "returned"
    /\ "permissions" \in DOMAIN input
    /\ input.permissions # <<>>

SucceededOutcomes == SelectSeq(ReturnedOutcomes, LAMBDA o : o.success)
FailedOutcomes == SelectSeq(ReturnedOutcomes, LAMBDA o : ~o.success)

\* C8: after create returned, successFields is the fullName of the outcomes with
\* success = true in returned order, failedFields is "fullName: messages joined"
\* of the outcomes with success = false in returned order, and every outcome is
\* in exactly one of them.
C8_PartitionByOutcome ==
    (createStatus = "returned") =>
        /\ successFields =
            [k \in 1..Len(SucceededOutcomes) |-> SucceededOutcomes[k].fullName]
        /\ failedFields =
            [k \in 1..Len(FailedOutcomes) |->
                FailedOutcomes[k].fullName \o ": " \o JoinedErrors(FailedOutcomes[k])]
        /\ Len(successFields) + Len(failedFields) = Len(ReturnedOutcomes)

\* C8 witness: two fields were submitted, their outcomes came back in the
\* other order, one succeeded and the other failed with a single error.
C8_Witness ==
    /\ createStatus = "returned"
    /\ Len(input.fields) = 2
    /\ Len(ReturnedOutcomes) = 2
    /\ successFields = <<"Account.Bar__c">>
    /\ failedFields = <<"Account.Foo__c: error 1">>
    /\ \E k \in 1..Len(calls) :
          /\ calls[k].op = "create"
          /\ calls[k].arg[1].fullName = "Account.Foo__c"
          /\ calls[k].arg[2].fullName = "Account.Bar__c"
    /\ ReturnedOutcomes[1].fullName = "Account.Bar__c"
    /\ ~ReturnedOutcomes[2].errors.isArray

\* the items the create call of this invocation carried
SubmittedItems == calls[CHOOSE k \in 1..Len(calls) : calls[k].op = "create"].arg

\* the remote returned one outcome per submitted field, in any order
OneOutcomePerField ==
    \A j \in 1..Len(SubmittedItems) :
        Cardinality({k \in 1..Len(ReturnedOutcomes) :
                        ReturnedOutcomes[k].fullName = SubmittedItems[j].fullName})
            = Cardinality({k \in 1..Len(SubmittedItems) :
                            SubmittedItems[k].fullName = SubmittedItems[j].fullName})

\* every submitted fullName is in successFields or in failedFields
AllAccountedFor ==
    \A j \in 1..Len(SubmittedItems) :
        LET name == SubmittedItems[j].fullName IN
        \/ \E k \in 1..Len(successFields) : successFields[k] = name
        \/ \E k \in 1..Len(failedFields) : StartsWith(failedFields[k], name \o ": ")

CreateCalls == {k \in 1..Len(calls) : calls[k].op = "create"}

\* C10: an invocation whose connection resolved has made exactly one create
\* call, of kind CustomField, carrying the item of every input field in input
\* order; an invocation whose connection did not resolve has made none; over
\* repeated invocations with the same input there are as many create calls as
\* invocations whose connection resolved.
C10_OneCreateCallPerInvocation ==
    /\ Cardinality(CreateCalls) = IF connectionStatus = "resolved" THEN 1 ELSE 0
    /\ \A k \in CreateCalls :
          /\ calls[k].kind = "CustomField"
          /\ Len(calls[k].arg) = Len(input.fields)
          /\ \A j \in 1..Len(input.fields) :
                calls[k].arg[j] = MetadataItem(input.fields[j])
    /\ createTotal = resolvedTotal

\* C10 witness: the second invocation with the same input has made the second
\* create call.
C10_Witness ==
    /\ invocation = 2
    /\ createTotal = 2
    /\ Cardinality(CreateCalls) = 1
    /\ Len(input.fields) = 2

(***************************************************************************)
(* Properties of the building of a metadata item (SpecBuild).              *)
(***************************************************************************)
\* s is t followed by "__c"
Suffixed(s, t) == s = t \o "__c"

\* s is some string followed by "__c"
HasSuffix(s) == Len(s) >= 3 /\ Suffixed(s, SubSeq(s, 1, Len(s) - 3))

\* the part of the item's fullName after the object name and the dot
ItemFieldName ==
    SubSeq(metadataItem.fullName, Len(fieldDefinition.objectApiName) + 2,
           Len(metadataItem.fullName))

\* C11: the fullName of the item built for a field is objectApiName "."
\* fieldApiName "__c" when fieldApiName does not end with "__c" and objectApiName
\* "." fieldApiName when it does; it ends with "__c", the tool never appends a
\* second suffix, and the rule applied to the suffixed name changes nothing.
C11_FullNameSuffixedOnce ==
    (buildPc = "item") =>
        LET obj == fieldDefinition.objectApiName
            name == fieldDefinition.fieldApiName
            full == metadataItem.fullName
        IN  /\ ~HasSuffix(name) => full = obj \o "." \o name \o "__c"
            /\ HasSuffix(name) => full = obj \o "." \o name
            /\ HasSuffix(full)
            /\ HasSuffix(name) => ~Suffixed(ItemFieldName, name)
            /\ MetadataItem([fieldDefinition EXCEPT !.fieldApiName = ItemFieldName]).fullName
                    = full

\* C11 witness: an item was built for a field whose name already had the suffix.
C11_Witness ==
    /\ buildPc = "item"
    /\ fieldDefinition.fieldApiName = "Foo__c"
    /\ metadataItem.fullName = "Account.Foo__c"

\* the value given for an option, or d when the option is not given
GivenOr(key, d) ==
    IF key \in DOMAIN fieldDefinition THEN fieldDefinition[key] ELSE d

\* the payload has the key with the given value, or with d when none is given
Resolved(key, d) ==
    key \in DOMAIN builtMetadata /\ builtMetadata[key] = GivenOr(key, d)

Built == buildPc \in {"built", "item"}

\* C12: the payload of buildFieldMetadata has each numeric option of its type
\* with the given value, or with the type's default when none is given: length
\* 255 for Text and TextArea; precision 18 and scale 2 for Number, Currency and
\* Percent; length 32768 and visibleLines 6 for LongTextArea and RichTextArea;
\* visibleLines 4 for MultiselectPicklist.
C12_NumericOptionsResolved ==
    Built =>
        LET t == fieldDefinition.type IN
        /\ t \in {"Text", "TextArea"} => Resolved("length", 255)
        /\ t \in {"Number", "Currency", "Percent"} =>
                Resolved("precision", 18) /\ Resolved("scale", 2)
        /\ t \in {"LongTextArea", "RichTextArea"} =>
                Resolved("length", 32768) /\ Resolved("visibleLines", 6)
        /\ t = "MultiselectPicklist" => Resolved("visibleLines", 4)

\* C12 witness: a LongTextArea payload was built with the given length 0 and the
\* default number of visible lines.
C12_Witness ==
    /\ buildPc = "built"
    /\ fieldDefinition.type = "LongTextArea"
    /\ "length" \in DOMAIN fieldDefinition
    /\ fieldDefinition.length = 0
    /\ "visibleLines" \notin DOMAIN fieldDefinition
    /\ builtMetadata.length = 0
    /\ builtMetadata.visibleLines = 6

\* the base attributes of the payload: those always present, and description
\* and inlineHelpText present exactly when given
BaseAttributes ==
    LET keys == DOMAIN builtMetadata IN
    /\ {"label", "type", "required", "unique", "externalId"} \subseteq keys
    /\ builtMetadata.label = fieldDefinition.label
    /\ builtMetadata.required = GivenOr("required", FALSE)
    /\ builtMetadata.unique = GivenOr("unique", FALSE)
    /\ builtMetadata.externalId = GivenOr("externalId", FALSE)
    /\ ("description" \in keys) <=> ("description" \in DOMAIN fieldDefinition)
    /\ ("description" \in keys) => builtMetadata.description = fieldDefinition.description
    /\ ("inlineHelpText" \in keys) <=> ("helpText" \in DOMAIN fieldDefinition)
    /\ ("inlineHelpText" \in keys) => builtMetadata.inlineHelpText = fieldDefinition.helpText

\* C13 as amended: label, type, required, unique and externalId are always in the
\* payload (the three booleans false when not given), description and
\* inlineHelpText are in it exactly when given, and referenceTo is in it exactly
\* when it is given and the type is Lookup or MasterDetail; no key of the
\* payload is undefined.
C13_AbsentOptionsDropped ==
    Built =>
        /\ BaseAttributes
        /\ ("referenceTo" \in DOMAIN builtMetadata) <=>
                /\ "referenceTo" \in DOMAIN fieldDefinition
                /\ fieldDefinition.type \in {"Lookup", "MasterDetail"}
        /\ ("referenceTo" \in DOMAIN builtMetadata) =>
                builtMetadata.referenceTo = fieldDefinition.referenceTo

\* C13 witness: a Lookup payload was built from a definition that gives
\* referenceTo and neither description nor helpText.
C13_Witness ==
    /\ buildPc = "built"
    /\ fieldDefinition.type = "Lookup"
    /\ "referenceTo" \in DOMAIN fieldDefinition
    /\ "description" \notin DOMAIN fieldDefinition
    /\ "helpText" \notin DOMAIN fieldDefinition
    /\ "referenceTo" \in DOMAIN builtMetadata
    /\ "description" \notin DOMAIN builtMetadata

\* C13: label, type, required, unique and externalId are always in the payload,
\* and description, inlineHelpText and referenceTo are in it exactly when the
\* input gives them.
C13_PresentExactlyWhenGiven ==
    Built =>
        /\ BaseAttributes
        /\ ("referenceTo" \in DOMAIN builtMetadata) <=>
                ("referenceTo" \in DOMAIN fieldDefinition)

\* the attributes the switch on the field type may set
TypeSpecificAttributes ==
    {"length", "precision", "scale", "visibleLines", "valueSet", "referenceTo",
     "relationshipName", "relationshipLabel", "deleteConstraint"}

\* those of them the payload has
TypeSpecificKeys == DOMAIN builtMetadata \cap TypeSpecificAttributes

\* picklistValues is given and not empty
HasPicklistValues ==
    IF "picklistValues" \in DOMAIN fieldDefinition
        THEN Len(fieldDefinition.picklistValues) > 0
        ELSE FALSE

\* C14: the type-specific attributes of the payload are those of its type,
\* whatever other options are given: none for Checkbox, Date, DateTime, Email,
\* Phone and Url; never deleteConstraint for MasterDetail; always
\* deleteConstraint, the given value or "SetNull", for Lookup.
C14_OnlyRelevantOptionsConsulted ==
    Built =>
        LET t == fieldDefinition.type
            given(key) == IF key \in DOMAIN fieldDefinition THEN {key} ELSE {}
            relationship ==
                {"relationshipName", "relationshipLabel"} \cup given("referenceTo")
        IN  /\ t \in {"Checkbox", "Date", "DateTime", "Email", "Phone", "Url"} =>
                    TypeSpecificKeys = {}
            /\ t \in {"Text", "TextArea"} => TypeSpecificKeys = {"length"}
            /\ t \in {"Number", "Currency", "Percent"} =>
                    TypeSpecificKeys = {"precision", "scale"}
            /\ t \in {"LongTextArea", "RichTextArea"} =>
                    TypeSpecificKeys = {"length", "visibleLines"}
            /\ t = "Picklist" =>
                    TypeSpecificKeys = IF HasPicklistValues THEN {"valueSet"} ELSE {}
            /\ t = "MultiselectPicklist" =>
                    TypeSpecificKeys =
                        {"visibleLines"} \cup IF HasPicklistValues THEN {"valueSet"} ELSE {}
            /\ t = "MasterDetail" => TypeSpecificKeys = relationship
            /\ t = "Lookup" =>
                    /\ TypeSpecificKeys = relationship \cup {"deleteConstraint"}
                    /\ builtMetadata.deleteConstraint = GivenOr("deleteConstraint", "SetNull")

\* C14 witness: a Checkbox payload was built from a definition that gives every
\* option.
C14_Witness ==
    /\ buildPc = "built"
    /\ fieldDefinition.type = "Checkbox"
    /\ TypeSpecificAttributes \ {"valueSet"} \subseteq DOMAIN fieldDefinition
    /\ "picklistValues" \in DOMAIN fieldDefinition
    /\ TypeSpecificKeys = {}

\* C15: for Picklist and MultiselectPicklist with picklistValues not empty the
\* payload's valueSet is restricted and unsorted, with one entry per value in
\* input order, fullName = label = the value and default = isDefault, false when
\* isDefault is not given; with picklistValues absent or empty there is no
\* valueSet.
C15_ValueSetFromPicklistValues ==
    (Built /\ fieldDefinition.type \in {"Picklist", "MultiselectPicklist"}) =>
        IF HasPicklistValues
            THEN /\ "valueSet" \in DOMAIN builtMetadata
                 /\ LET pvs == fieldDefinition.picklistValues
                        vs == builtMetadata.valueSet
                        entries == vs.valueSetDefinition.value
                    IN  /\ vs.restricted = TRUE
                        /\ vs.valueSetDefinition.sorted = FALSE
                        /\ Len(entries) = Len(pvs)
                        /\ \A k \in 1..Len(pvs) :
                              /\ entries[k].fullName = pvs[k].value
                              /\ entries[k].label = pvs[k].value
                              /\ entries[k].default =
                                    IF "isDefault" \in DOMAIN pvs[k]
                                        THEN pvs[k].isDefault ELSE FALSE
            ELSE "valueSet" \notin DOMAIN builtMetadata

\* C15 witness: a Picklist payload was built from two values, the first the
\* default and the second without isDefault.
C15_Witness ==
    /\ buildPc = "built"
    /\ fieldDefinition.type = "Picklist"
    /\ HasPicklistValues
    /\ Len(fieldDefinition.picklistValues) = 2
    /\ "isDefault" \notin DOMAIN fieldDefinition.picklistValues[2]
    /\ builtMetadata.valueSet.valueSetDefinition.value[1].default
    /\ ~builtMetadata.valueSet.valueSetDefinition.value[2].default

\* what a type name is to be mapped to
RemoteType(name) == IF name = "RichTextArea" THEN "Html" ELSE name

\* C16: mapFieldType maps RichTextArea to "Html" and each of the 16 other field
\* types to itself, returns a name outside the 17 unchanged, and the type of
\* every payload is mapFieldType of the definition's type.
C16_TypeMapped ==
    /\ Cardinality(fieldTypeEnum \ {"RichTextArea"}) = 16
    /\ buildPc # "given" => mappedType = RemoteType(typeName)
    /\ Built => builtMetadata.type = RemoteType(fieldDefinition.type)

\* the part of C16 about the 17 field types and the names typeMap does not
\* inherit from Object.prototype
TypeMappedUnlessInherited ==
    /\ (buildPc # "given" /\ typeName \notin ObjectPrototypeKeys) =>
            mappedType = RemoteType(typeName)
    /\ Built => builtMetadata.type = RemoteType(fieldDefinition.type)

\* C16 witness: mapFieldType was applied to a name typeMap inherits.
C16_Witness ==
    /\ buildPc = "mapped"
    /\ typeName = "constructor"
    /\ mappedType = Inherited("constructor")

(***************************************************************************)
(* Properties of the update calls of the permission phase (Spec).          *)
(***************************************************************************)
\* the PermissionSet update of the grantee last processed failed: it threw or
\* returned success = false
PermissionSetFailed ==
    /\ attempts # <<>>
    /\ IF attempts[1].threw THEN TRUE ELSE ~UsedOutcome(attempts[1].result).success

\* the line a Profile update that ended as b decides for grantee g
FallbackLine(g, b) ==
    IF b.threw
        THEN "[x] \"" \o GranteeName(g) \o "\": " \o b.message
    ELSE IF UsedOutcome(b.result).success
        THEN "[v] Profile \"" \o GranteeName(g) \o "\": assigned"
    ELSE "[x] \"" \o GranteeName(g) \o "\": " \o JoinedErrors(UsedOutcome(b.result))

\* C17: the number of Profile updates made for a grantee and the grantee's line
\* depend on how the Profile update ended (returned success, returned a
\* failure, threw) and not on whether the PermissionSet update threw or
\* returned success = false: on both paths one Profile update is made and the
\* line is the one it decides.
C17_FallbackPathsEquivalent ==
    (LineRecorded /\ PermissionSetFailed) =>
        /\ Len(attempts) = 2
        /\ attempts[2].call.kind = "Profile"
        /\ results[attempts[1].grantee] = FallbackLine(attempts[1].grantee, attempts[2])

\* C17 witness: the PermissionSet update returned success = false, the Profile
\* update that followed threw and another Profile update was made.
C17_Witness ==
    /\ LineRecorded
    /\ ~attempts[1].threw
    /\ Len(attempts) = 3
    /\ attempts[2].threw
    /\ attempts[2].call.kind = "Profile"
    /\ attempts[3].call.kind = "Profile"

\* the update calls made for grantee g
UpdateCallsOf(g, kind) ==
    {k \in UpdateCalls : calls[k].kind = kind /\ calls[k].arg.fullName = GranteeName(g)}

\* C18: every grantee processed has exactly one PermissionSet update call and
\* at most one Profile update call; a Profile update is made only after the
\* grantee's PermissionSet update threw or returned success = false.
C18_AtMostOneFallbackCall ==
    (i >= 1) =>
        /\ \A g \in 1..i :
              /\ Cardinality(UpdateCallsOf(g, "PermissionSet")) = 1
              /\ Cardinality(UpdateCallsOf(g, "Profile")) <= 1
        /\ (UpdateCallsOf(i, "Profile") # {}) => PermissionSetFailed
        /\ (attempts # <<>> /\ attempts[1].grantee = i /\ ~PermissionSetFailed) =>
                UpdateCallsOf(i, "Profile") = {}

\* C18 witness: two Profile update calls have been made for the first grantee.
C18_Witness ==
    /\ i = 1
    /\ pc = "updateProfileInCatch"
    /\ Cardinality(UpdateCallsOf(1, "Profile")) = 2

\* the grantee an update call is for
GranteeOf(k) ==
    CHOOSE g \in 1..Len(input.permissions) : GranteeName(g) = calls[k].arg.fullName

\* a call is being awaited
Awaiting ==
    pc \in {"getConnection", "create", "updatePermissionSet", "updateProfileInTry",
            "updateProfileInCatch"}

\* calls[k] is an update call that may follow calls[k - 1]: a PermissionSet
\* update is the first call after create, for the first grantee, or follows an
\* update of the grantee just before its own; a Profile update follows an update
\* of its own grantee
InSequence(k) ==
    LET name == calls[k].arg.fullName
        before == calls[k - 1]
    IN  IF calls[k].kind = "PermissionSet"
            THEN IF before.op = "create"
                    THEN name = GranteeName(1)
                    ELSE /\ before.op = "update"
                         /\ \E g \in 1..(Len(input.permissions) - 1) :
                                /\ before.arg.fullName = GranteeName(g)
                                /\ name = GranteeName(g + 1)
            ELSE /\ calls[k].kind = "Profile"
                 /\ before.op = "update"
                 /\ before.arg.fullName = name

\* C19: the remote calls of an invocation are made one after the other: create
\* is called after getConnection and has returned before any update call; the
\* update calls come grantee by grantee in request order, the PermissionSet
\* update of a grantee first and its Profile updates after it; while an update
\* is awaited it is the last call made, it is for the current grantee and every
\* earlier grantee has its line.
C19_CallsInSequence ==
    /\ \A k \in 1..Len(calls) :
          /\ calls[k].op = "getConnection" => k = 1
          /\ calls[k].op = "create" => k = 2 /\ calls[1].op = "getConnection"
          /\ calls[k].op = "update" =>
                 k >= 3 /\ createStatus = "returned" /\ InSequence(k)
    /\ (pc \in {"updatePermissionSet", "updateProfileInTry", "updateProfileInCatch"}) =>
          /\ calls[Len(calls)].op = "update"
          /\ calls[Len(calls)].arg.fullName = GranteeName(i)
          /\ Len(results) = i - 1
    /\ pc = "create" => calls[Len(calls)].op = "create" /\ createStatus = "none"
    /\ pc = "getConnection" => calls[Len(calls)].op = "getConnection"
    /\ ~Awaiting => pc \in {"start", "returned", "rejected"}

\* C19 witness: the Profile update of the second grantee is awaited after the
\* two update calls of the first.
C19_Witness ==
    /\ i = 2
    /\ pc = "updateProfileInTry"
    /\ Len(results) = 1
    /\ Cardinality(UpdateCallsOf(1, "PermissionSet")) = 1
    /\ Cardinality(UpdateCallsOf(1, "Profile")) = 1
    /\ Cardinality(UpdateCallsOf(2, "Profile")) = 1

\* the names of the returned outcomes are all different
DistinctOutcomeNames ==
    \A j, k \in 1..Len(ReturnedOutcomes) :
        j # k => ReturnedOutcomes[j].fullName # ReturnedOutcomes[k].fullName

\* C20: every update call carries its grantee's name and a grant-list with one
\* entry per element of successFields, in that order, with the readable and
\* editable of the grantee's request; the entries are the outcomes that
\* succeeded, and no name of a failed outcome is in a grant-list (the names of
\* the outcomes being all different).
C20_GrantListOfSuccessFields ==
    LET updates == UpdateCalls IN
    (updates # {}) =>
        LET succeeded == SucceededOutcomes
            failedNames == {ReturnedOutcomes[f].fullName :
                                f \in {x \in 1..Len(ReturnedOutcomes) :
                                            ~ReturnedOutcomes[x].success}}
            distinct == DistinctOutcomeNames
        IN  \A k \in updates :
                LET g == GranteeOf(k)
                    list == calls[k].arg.fieldPermissions
                IN  /\ calls[k].arg.fullName = input.permissions[g].permissionSetOrProfile
                    /\ DOMAIN calls[k].arg = {"fullName", "fieldPermissions"}
                    /\ Len(list) = Len(successFields)
                    /\ Len(list) = Len(succeeded)
                    /\ \A j \in 1..Len(list) :
                          /\ list[j].field = successFields[j]
                          /\ list[j].field = succeeded[j].fullName
                          /\ list[j].readable = input.permissions[g].readable
                          /\ list[j].editable = input.permissions[g].editable
                          /\ distinct => list[j].field \notin failedNames

\* C20 witness: one field of two failed, and the Profile update for the
\* grantee carries the field that succeeded.
C20_Witness ==
    /\ i = 1
    /\ pc = "updateProfileInTry"
    /\ Len(successFields) = 1
    /\ Len(failedFields) = 1
    /\ calls[Len(calls)].kind = "Profile"
    /\ calls[Len(calls)].arg.fieldPermissions =
            <<[field |-> successFields[1], readable |-> TRUE, editable |-> FALSE]>>

====
